---- MODULE Spec2Model ----
(***************************************************************************)
(* ResoNestCli: the install / uninstall / refresh workflows of             *)
(* build_manager.py, driven by the three sub-commands of cli.py.           *)
(*                                                                         *)
(* The program is single-threaded.  Every action below is one stretch of   *)
(* code between two interactions with the outside world (an external       *)
(* command or a look at the file system); the outcome of an external       *)
(* command (exit status, captured output, failure to start) is an input    *)
(* chosen by the environment.                                              *)
(*                                                                         *)
(* Text is a sequence of one-character strings.  "K" stands for the        *)
(* literal PRODUCT_BUNDLE_IDENTIFIER, which the code only ever looks for   *)
(* as a whole.  An optional value is a sequence of length 0 (None) or 1.   *)
(***************************************************************************)
EXTENDS Integers, Sequences, FiniteSets, TLC

VARIABLES
    workflow,           \* the cli sub-command: install, uninstall, refresh
    check,              \* CommandRunner.check
    config,             \* the SimulatorConfig
    appExists,          \* config.app_path.exists()
    plistExists,        \* (config.app_path / 'Info.plist').exists()
    pc,                 \* where the program is
    status,             \* running, returned, exited (sys.exit), raised
    exitCode,           \* -1 while running, then the process's exit code
    by,                 \* the BuildManager method executing
    caller,             \* who called get_bundle_identifier
    bundle_identifier,  \* the local of that name, None or Some(text)
    installed,          \* what is_app_installed() returned: none, true, false
    stepIdx,            \* position of the step loop in its list
    cmds,               \* the external commands issued so far, in order
    lastCmd,            \* the last command issued, with its argument
    lastProc,           \* what the environment answered to it
    lastRet,            \* what the runner call that issued it came to
    log,                \* what that runner call sent to the logger
    displayActive,      \* a rich Progress is started and not stopped
    progressCalls,      \* how often Progress.start and Progress.stop ran
    tasks,              \* the methods that have added a progress task
    advanced,           \* per method, the amount advanced on its task
    finished            \* the methods that have returned normally

inputs == <<workflow, check, config, appExists, plistExists>>
ctl    == <<pc, status, exitCode>>
locals == <<by, caller, bundle_identifier, installed, stepIdx>>
trace  == <<cmds, lastCmd, lastProc, lastRet, log>>
prog   == <<displayActive, progressCalls, tasks, advanced, finished>>
vars   == <<inputs, ctl, locals, trace, prog>>

(***************************************************************************)
(* Bounds of the inputs.                                                   *)
(***************************************************************************)
MaxLen == 2           \* length of the output of an ordinary command
MaxIdLen == 2         \* length of the output of the CFBundleIdentifier query
MaxSettingsLen == 3   \* length of the output of -showBuildSettings

SeqsUpTo(S, n) == UNION {[1..k -> S] : k \in 0..n}

Char == {"a", " ", "\n", "=", "K"}
LogTexts == SeqsUpTo({"a", "\n"}, MaxLen)
IdTexts == SeqsUpTo({"a", " ", "\n"}, MaxIdLen)
SettingsTexts == SeqsUpTo(Char, MaxSettingsLen)
ExcTexts == LogTexts \ {<<>>}

None == <<>>
Some(x) == <<x>>

(***************************************************************************)
(* What subprocess.run can come to: the process ran and exited zero or     *)
(* non-zero with its combined output captured, or it could not be started  *)
(* (OSError), in which case there is only the exception's text.            *)
(***************************************************************************)
Outcomes(texts) ==
    [rc : {"zero", "nonzero"}, stdout : texts, exc : {<<>>}]
    \cup [rc : {"launch_error"}, stdout : {<<>>}, exc : ExcTexts]

(***************************************************************************)
(* str methods.                                                            *)
(***************************************************************************)
IndexOf(s, c) ==
    IF \E i \in 1..Len(s) : s[i] = c
    THEN CHOOSE i \in 1..Len(s) : s[i] = c /\ \A j \in 1..(i - 1) : s[j] # c
    ELSE 0

RECURSIVE SplitLines(_)
SplitLines(s) ==
    IF s = <<>> THEN <<>>
    ELSE LET i == IndexOf(s, "\n") IN
         IF i = 0 THEN <<s>>
         ELSE <<SubSeq(s, 1, i - 1)>> \o SplitLines(SubSeq(s, i + 1, Len(s)))

RECURSIVE Split(_, _)
Split(s, sep) ==
    LET i == IndexOf(s, sep) IN
    IF i = 0 THEN <<s>>
    ELSE <<SubSeq(s, 1, i - 1)>> \o Split(SubSeq(s, i + 1, Len(s)), sep)

Whitespace == {" ", "\n"}

RECURSIVE LStrip(_)
LStrip(s) ==
    IF s # <<>> /\ Head(s) \in Whitespace THEN LStrip(Tail(s)) ELSE s

RECURSIVE RStrip(_)
RStrip(s) ==
    IF s # <<>> /\ s[Len(s)] \in Whitespace
    THEN RStrip(SubSeq(s, 1, Len(s) - 1)) ELSE s

\* strip that forgets the trailing end
StripLeadingOnly(s) == LStrip(s)

Strip(s) == RStrip(LStrip(s))

Contains(s, c) == IndexOf(s, c) # 0

(***************************************************************************)
(* Logger records: a header written by the runner itself, or one line of   *)
(* the command's output.                                                   *)
(***************************************************************************)
Header(sev, what) == [sev |-> sev, kind |-> what, text |-> <<>>]
Line(sev, l) == [sev |-> sev, kind |-> "line", text |-> l]
Lines(sev, out) ==
    LET ls == SplitLines(out) IN [i \in 1..Len(ls) |-> Line(sev, ls[i])]

(***************************************************************************)
(* Variants of the definitions below, each with one plausible slip; the    *)
(* properties are rechecked against them to see that they can tell.        *)
(***************************************************************************)
\* run that writes the output of a failed command at debug severity
RunFailureLinesAtDebug(chk, p) ==
    IF p.rc = "launch_error"
    THEN [kind |-> "raise", value |-> [output |-> <<>>],
          log |-> <<Header("debug", "executing")>>]
    ELSE IF p.rc = "nonzero" /\ chk
    THEN [kind |-> "exit", value |-> [output |-> <<>>],
          log |-> <<Header("debug", "executing"), Header("error", "failed")>>
                  \o Lines("debug", p.stdout)]
    ELSE [kind |-> "return", value |-> [output |-> p.stdout],
          log |-> <<Header("debug", "executing")>> \o Lines("debug", p.stdout)]

\* run that ends the process on any non-zero exit, flag or no flag
RunExitsWithoutCheck(chk, p) ==
    IF p.rc = "launch_error"
    THEN [kind |-> "raise", value |-> [output |-> <<>>],
          log |-> <<Header("debug", "executing")>>]
    ELSE IF p.rc = "nonzero"
    THEN [kind |-> "exit", value |-> [output |-> <<>>],
          log |-> <<Header("debug", "executing"), Header("error", "failed")>>
                  \o Lines("error", p.stdout)]
    ELSE [kind |-> "return", value |-> [output |-> p.stdout],
          log |-> <<Header("debug", "executing")>> \o Lines("debug", p.stdout)]

\* run_safe that writes the output of a failed command at warning severity
RunSafeFailureLinesAtWarning(p) ==
    IF p.rc = "launch_error"
    THEN [kind |-> "return", value |-> [success |-> FALSE, output |-> p.exc],
          log |-> <<Header("debug", "executing_safely"),
                    [sev |-> "error", kind |-> "exception", text |-> p.exc]>>]
    ELSE IF p.rc = "zero"
    THEN [kind |-> "return", value |-> [success |-> TRUE, output |-> p.stdout],
          log |-> <<Header("debug", "executing_safely")>>
                  \o Lines("debug", p.stdout)]
    ELSE [kind |-> "return", value |-> [success |-> FALSE, output |-> p.stdout],
          log |-> <<Header("debug", "executing_safely"),
                    Header("warning", "failed_continuing")>>
                  \o Lines("warning", p.stdout)]

\* run_safe that catches nothing when the process cannot be started
RunSafeLaunchErrorRaises(p) ==
    IF p.rc = "launch_error"
    THEN [kind |-> "raise", value |-> [success |-> FALSE, output |-> <<>>],
          log |-> <<Header("debug", "executing_safely")>>]
    ELSE [kind |-> "return",
          value |-> [success |-> p.rc = "zero", output |-> p.stdout],
          log |-> <<Header("debug", "executing_safely")>>
                  \o Lines("debug", p.stdout)]

\* is_app_installed that takes any printed container path for a yes
IsAppInstalledByOutput(r) == IF r.value.output # <<>> THEN "true" ELSE "false"

\* install_app with the build ahead of the clean
InstallStepsBuildFirst ==
    << [name |-> "build",   weight |-> 50, target |-> "none",   arg |-> "none"],
       [name |-> "clean",   weight |-> 20, target |-> "none",   arg |-> "none"],
       [name |-> "install", weight |-> 20, target |-> "booted", arg |-> "app_path"],
       [name |-> "launch",  weight |-> 10, target |-> "booted",
        arg |-> "bundle_identifier"] >>

\* install_app with a build that weighs 40
InstallStepsBuild40 ==
    << [name |-> "clean",   weight |-> 20, target |-> "none",   arg |-> "none"],
       [name |-> "build",   weight |-> 40, target |-> "none",   arg |-> "none"],
       [name |-> "install", weight |-> 20, target |-> "booted", arg |-> "app_path"],
       [name |-> "launch",  weight |-> 10, target |-> "booted",
        arg |-> "bundle_identifier"] >>

\* refresh_app that starts with install_app
EntryPointInstallFirst(w) ==
    IF w = "uninstall" THEN "uninstall_app" ELSE "install_app"

(***************************************************************************)
(* CommandRunner.run.  subprocess.run(check=self.check) raises             *)
(* CalledProcessError only when check is set and the exit is non-zero; a   *)
(* process that cannot be started raises OSError, which run does not       *)
(* catch.  kind is how the call ends: return, exit (sys.exit(1)) or raise. *)
(***************************************************************************)
Run(chk, p) ==
    IF p.rc = "launch_error"
    THEN [kind |-> "raise", value |-> [output |-> <<>>],
          log |-> <<Header("debug", "executing")>>]
    ELSE IF p.rc = "nonzero" /\ chk
    THEN [kind |-> "exit", value |-> [output |-> <<>>],
          log |-> <<Header("debug", "executing"), Header("error", "failed")>>
                  \o Lines("error", p.stdout)]
    ELSE [kind |-> "return", value |-> [output |-> p.stdout],
          log |-> <<Header("debug", "executing")>> \o Lines("debug", p.stdout)]

(***************************************************************************)
(* CommandRunner.run_safe: check=False, and every Exception is caught.     *)
(***************************************************************************)
RunSafe(p) ==
    IF p.rc = "launch_error"
    THEN [kind |-> "return", value |-> [success |-> FALSE, output |-> p.exc],
          log |-> <<Header("debug", "executing_safely"),
                    [sev |-> "error", kind |-> "exception", text |-> p.exc]>>]
    ELSE IF p.rc = "zero"
    THEN [kind |-> "return", value |-> [success |-> TRUE, output |-> p.stdout],
          log |-> <<Header("debug", "executing_safely")>>
                  \o Lines("debug", p.stdout)]
    ELSE [kind |-> "return", value |-> [success |-> FALSE, output |-> p.stdout],
          log |-> <<Header("debug", "executing_safely"),
                    Header("warning", "failed_continuing")>>
                  \o Lines("debug", p.stdout)]

(***************************************************************************)
(* is_app_installed returns the success flag of the container query.       *)
(***************************************************************************)
IsAppInstalledResult(r) == IF r.value.success THEN "true" ELSE "false"

(***************************************************************************)
(* The scan of the build settings in uninstall_app: the first line that    *)
(* contains the key decides; line.split('=')[1] raises IndexError when     *)
(* that line has no '='.                                                   *)
(***************************************************************************)
RECURSIVE ScanSettings(_)
ScanSettings(ls) ==
    IF ls = <<>> THEN [kind |-> "none", id |-> <<>>]
    ELSE IF Contains(Head(ls), "K")
    THEN LET parts == Split(Head(ls), "=") IN
         IF Len(parts) < 2 THEN [kind |-> "index_error", id |-> <<>>]
         ELSE [kind |-> "value", id |-> Strip(parts[2])]
    ELSE ScanSettings(Tail(ls))

ParseSettings(result) == ScanSettings(SplitLines(result))

(***************************************************************************)
(* The step lists of install_app and uninstall_app.                        *)
(***************************************************************************)
InstallSteps ==
    << [name |-> "clean",   weight |-> 20, target |-> "none",   arg |-> "none"],
       [name |-> "build",   weight |-> 50, target |-> "none",   arg |-> "none"],
       [name |-> "install", weight |-> 20, target |-> "booted", arg |-> "app_path"],
       [name |-> "launch",  weight |-> 10, target |-> "booted",
        arg |-> "bundle_identifier"] >>

\* uninstall_app that names the device instead of the booted one
UninstallStepsByDeviceName ==
    << [name |-> "uninstall", weight |-> 100, target |-> "iPhone 16 Plus",
        arg |-> "bundle_identifier"] >>

UninstallSteps ==
    << [name |-> "uninstall", weight |-> 100, target |-> "booted",
        arg |-> "bundle_identifier"] >>

Steps(m) == IF m = "install" THEN InstallSteps ELSE UninstallSteps

Total == 100

(***************************************************************************)
(* SimulatorConfig.  A path is the sequence of its components, a component *)
(* a text without a separator; p / 'x' appends a component and an f-string *)
(* concatenates texts.  The validator set_app_path runs once, after the    *)
(* fields are set.                                                         *)
(***************************************************************************)
PathJoin(p, name) == Append(p, name)

\* the validator with scheme and configuration taken for each other
set_app_path_swapped(values) ==
    IF values.app_path = None
    THEN [values EXCEPT !.app_path =
            Some(PathJoin(PathJoin(PathJoin(PathJoin(values.derived_data_path,
                 <<"Build">>), <<"Products">>),
                 values.scheme \o <<"-iphonesimulator">>),
                 values.configuration \o <<".app">>))]
    ELSE values

set_app_path(values) ==
    IF values.app_path = None
    THEN [values EXCEPT !.app_path =
            Some(PathJoin(PathJoin(PathJoin(PathJoin(values.derived_data_path,
                 <<"Build">>), <<"Products">>),
                 values.configuration \o <<"-iphonesimulator">>),
                 values.scheme \o <<".app">>))]
    ELSE values

\* the field defaults
DefaultConfig ==
    [device_name |-> <<"iPhone 16 Plus">>,
     scheme |-> <<"ResoNest">>,
     configuration |-> <<"Debug">>,
     derived_data_path |-> << <<"build">> >>,
     app_path |-> None]

(***************************************************************************)
(* cli.py: the method each sub-command calls first (refresh_app starts     *)
(* with uninstall_app), and where get_bundle_identifier returns to.        *)
(***************************************************************************)
EntryPoint(w) == IF w = "install" THEN "install_app" ELSE "uninstall_app"

ReturnTo(c) ==
    CASE c = "is_app_installed" -> "is_app_installed"
      [] c = "install_installed" -> "launch_installed"
      [] c = "install_steps" -> "enter_progress"
      [] c = "uninstall" -> "enter_progress"

\* the state in which every sub-command starts, whatever the configuration
Started ==
    /\ workflow \in {"install", "uninstall", "refresh"}
    /\ appExists \in BOOLEAN
    /\ plistExists \in BOOLEAN
    /\ plistExists => appExists
    /\ status = "running"
    /\ exitCode = -1
    /\ by = "none"
    /\ caller = "none"
    /\ bundle_identifier = None
    /\ installed = "none"
    /\ stepIdx = 0
    /\ cmds = <<>>
    /\ lastCmd = [name |-> "none", arg |-> None, target |-> "none"]
    /\ lastProc = [rc |-> "none", stdout |-> <<>>, exc |-> <<>>]
    /\ lastRet = [via |-> "none", kind |-> "none", value |-> [output |-> <<>>]]
    /\ log = <<>>
    /\ displayActive = FALSE
    /\ progressCalls = [start |-> 0, stop |-> 0]
    /\ tasks = {}
    /\ advanced = [m \in {"install", "uninstall"} |-> 0]
    /\ finished = {}

\* cli.py: CommandRunnerConfig(shell=False, check=True), SimulatorConfig()
Init ==
    /\ check = TRUE
    /\ config = set_app_path(DefaultConfig)
    /\ Started
    /\ pc = EntryPoint(workflow)

(***************************************************************************)
(* Building blocks of the actions.                                         *)
(***************************************************************************)
\* an external command is issued through a runner method and answered
Issue(m, name, arg, target, p, via, r) ==
    /\ cmds' = Append(cmds, [name |-> name, by |-> m, rc |-> p.rc])
    /\ lastCmd' = [name |-> name, arg |-> arg, target |-> target]
    /\ lastProc' = p
    /\ lastRet' = [via |-> via, kind |-> r.kind, value |-> r.value]
    /\ log' = r.log

\* an unwinding that leaves a started Progress running, as without the
\* with block
AbortWithoutTeardown(kind) ==
    /\ pc' = "done"
    /\ status' = IF kind = "exit" THEN "exited" ELSE "raised"
    /\ exitCode' = 1
    /\ UNCHANGED <<displayActive, progressCalls>>

\* sys.exit(1) or an uncaught exception unwinds the stack: a with block
\* that is open stops its Progress, and the interpreter exits with code 1
Abort(kind) ==
    /\ pc' = "done"
    /\ status' = IF kind = "exit" THEN "exited" ELSE "raised"
    /\ exitCode' = 1
    /\ displayActive' = FALSE
    /\ progressCalls' = IF displayActive
                        THEN [progressCalls EXCEPT !.stop = @ + 1]
                        ELSE progressCalls

\* method m returns normally; refresh_app goes on from uninstall_app to
\* install_app, everything else returns to the cli, which exits with 0
Finish(m) ==
    /\ finished' = finished \cup {m}
    /\ bundle_identifier' = None
    /\ IF m = "uninstall" /\ workflow = "refresh"
       THEN pc' = "install_app" /\ UNCHANGED <<status, exitCode>>
       ELSE pc' = "done" /\ status' = "returned" /\ exitCode' = 0

(***************************************************************************)
(* BuildManager.install_app up to its call of is_app_installed, which      *)
(* starts by calling get_bundle_identifier.                                *)
(***************************************************************************)
InstallApp ==
    /\ pc = "install_app"
    /\ by' = "install"
    /\ caller' = "is_app_installed"
    /\ pc' = "get_bundle_identifier"
    /\ UNCHANGED <<inputs, status, exitCode, bundle_identifier, installed,
                   stepIdx, trace, prog>>

(***************************************************************************)
(* get_bundle_identifier, first half: the Info.plist must exist, then      *)
(* plutil converts it.                                                     *)
(***************************************************************************)
GetBundleIdentifier ==
    /\ pc = "get_bundle_identifier"
    /\ IF ~plistExists
       THEN /\ Abort("exit")
            /\ UNCHANGED <<trace, locals, tasks, advanced, finished>>
       ELSE \E p \in Outcomes(LogTexts) :
            LET r == Run(check, p) IN
            /\ Issue(by, "plutil", None, "none", p, "run", r)
            /\ IF r.kind = "return"
               THEN /\ pc' = "plist_query"
                    /\ UNCHANGED <<status, exitCode, displayActive, progressCalls>>
               ELSE Abort(r.kind)
            /\ UNCHANGED <<locals, tasks, advanced, finished>>
    /\ UNCHANGED inputs

(***************************************************************************)
(* get_bundle_identifier, second half: PlistBuddy prints the identifier,   *)
(* which is returned stripped to the caller.                               *)
(***************************************************************************)
PlistQuery ==
    /\ pc = "plist_query"
    /\ \E p \in Outcomes(IdTexts) :
       LET r == Run(check, p) IN
       /\ Issue(by, "PlistBuddy", None, "none", p, "run", r)
       /\ IF r.kind = "return"
          THEN /\ bundle_identifier' = Some(Strip(r.value.output))
               /\ pc' = ReturnTo(caller)
               /\ UNCHANGED <<status, exitCode, displayActive, progressCalls>>
          ELSE Abort(r.kind) /\ UNCHANGED bundle_identifier
    /\ UNCHANGED <<inputs, by, caller, installed, stepIdx, tasks, advanced,
                   finished>>

(***************************************************************************)
(* is_app_installed after the identifier is known: the container query     *)
(* through run_safe.                                                       *)
(***************************************************************************)
IsAppInstalled ==
    /\ pc = "is_app_installed"
    /\ \E p \in Outcomes(LogTexts) :
       LET r == RunSafe(p) IN
       /\ Issue(by, "get_app_container", bundle_identifier, "booted", p,
                "run_safe", r)
       /\ IF r.kind = "return"
          THEN /\ installed' = IsAppInstalledResult(r)
               /\ pc' = "install_branch"
               /\ UNCHANGED <<status, exitCode, displayActive, progressCalls>>
          ELSE Abort(r.kind) /\ UNCHANGED installed
    /\ bundle_identifier' = None
    /\ UNCHANGED <<inputs, by, caller, stepIdx, tasks, advanced, finished>>

\* install_app that builds its step list without resolving the identifier
InstallBranchStepsWithoutResolve ==
    /\ pc = "install_branch"
    /\ IF installed = "true"
       THEN pc' = "get_bundle_identifier" /\ caller' = "install_installed"
       ELSE pc' = "enter_progress" /\ UNCHANGED caller
    /\ UNCHANGED <<inputs, status, exitCode, by, bundle_identifier, installed,
                   stepIdx, trace, prog>>

\* install_app that launches right after the check when the app is installed
InstallBranchLaunchesAtOnce ==
    /\ pc = "install_branch"
    /\ IF installed = "true"
       THEN pc' = "launch_installed" /\ UNCHANGED caller
       ELSE pc' = "get_bundle_identifier" /\ caller' = "install_steps"
    /\ UNCHANGED <<inputs, status, exitCode, by, bundle_identifier, installed,
                   stepIdx, trace, prog>>

(***************************************************************************)
(* install_app after is_app_installed returned: both branches resolve the  *)
(* identifier again, the one to launch, the other while building the step  *)
(* list.                                                                   *)
(***************************************************************************)
InstallBranch ==
    /\ pc = "install_branch"
    /\ caller' = IF installed = "true" THEN "install_installed"
                 ELSE "install_steps"
    /\ pc' = "get_bundle_identifier"
    /\ UNCHANGED <<inputs, status, exitCode, by, bundle_identifier, installed,
                   stepIdx, trace, prog>>

(***************************************************************************)
(* install_app, already installed: launch and return.                      *)
(***************************************************************************)
LaunchInstalled ==
    /\ pc = "launch_installed"
    /\ \E p \in Outcomes(LogTexts) :
       LET r == Run(check, p) IN
       /\ Issue(by, "launch", bundle_identifier, "booted", p, "run", r)
       /\ IF r.kind = "return"
          THEN Finish(by) /\ UNCHANGED <<displayActive, progressCalls>>
          ELSE Abort(r.kind) /\ UNCHANGED <<bundle_identifier, finished>>
    /\ UNCHANGED <<inputs, by, caller, installed, stepIdx, tasks, advanced>>

(***************************************************************************)
(* with self.progress_manager as progress: progress.add_task(total=100).   *)
(***************************************************************************)
EnterProgress ==
    /\ pc = "enter_progress"
    /\ displayActive' = TRUE
    /\ progressCalls' = [progressCalls EXCEPT !.start = @ + 1]
    /\ tasks' = tasks \cup {by}
    /\ advanced' = [advanced EXCEPT ![by] = 0]
    /\ stepIdx' = 1
    /\ pc' = "step"
    /\ UNCHANGED <<inputs, status, exitCode, by, caller, bundle_identifier,
                   installed, trace, finished>>

\* a step loop that advances the progress before it runs the step
RunStepAdvancesFirst ==
    /\ pc = "step"
    /\ LET s == Steps(by)[stepIdx]
           arg == IF s.arg = "bundle_identifier" THEN bundle_identifier
                  ELSE None
       IN
       \E p \in Outcomes(LogTexts) :
       LET r == Run(check, p) IN
       /\ Issue(by, s.name, arg, s.target, p, "run", r)
       /\ advanced' = [advanced EXCEPT ![by] = @ + s.weight]
       /\ IF r.kind = "return"
          THEN IF stepIdx < Len(Steps(by))
               THEN /\ stepIdx' = stepIdx + 1
                    /\ UNCHANGED <<ctl, bundle_identifier, displayActive,
                                   progressCalls, finished>>
               ELSE /\ displayActive' = FALSE
                    /\ progressCalls' = [progressCalls EXCEPT !.stop = @ + 1]
                    /\ Finish(by)
                    /\ UNCHANGED stepIdx
          ELSE /\ Abort(r.kind)
               /\ UNCHANGED <<stepIdx, bundle_identifier, finished>>
    /\ UNCHANGED <<inputs, by, caller, installed, tasks>>

(***************************************************************************)
(* One turn of the step loop; after the last step the with block is left   *)
(* and the method returns.                                                 *)
(***************************************************************************)
RunStep ==
    /\ pc = "step"
    /\ LET s == Steps(by)[stepIdx]
           arg == IF s.arg = "bundle_identifier" THEN bundle_identifier
                  ELSE None
       IN
       \E p \in Outcomes(LogTexts) :
       LET r == Run(check, p) IN
       /\ Issue(by, s.name, arg, s.target, p, "run", r)
       /\ IF r.kind = "return"
          THEN /\ advanced' = [advanced EXCEPT ![by] = @ + s.weight]
               /\ IF stepIdx < Len(Steps(by))
                  THEN /\ stepIdx' = stepIdx + 1
                       /\ UNCHANGED <<ctl, bundle_identifier, displayActive,
                                      progressCalls,
                                      finished>>
                  ELSE /\ displayActive' = FALSE
                       /\ progressCalls' = [progressCalls EXCEPT !.stop = @ + 1]
                       /\ Finish(by)
                       /\ UNCHANGED stepIdx
          ELSE /\ Abort(r.kind)
               /\ UNCHANGED <<advanced, stepIdx, bundle_identifier, finished>>
    /\ UNCHANGED <<inputs, by, caller, installed, tasks>>

(***************************************************************************)
(* uninstall_app up to the identifier: through get_bundle_identifier when  *)
(* app_path exists, otherwise from the build settings.                     *)
(***************************************************************************)
UninstallApp ==
    /\ pc = "uninstall_app"
    /\ by' = "uninstall"
    /\ IF appExists
       THEN /\ caller' = "uninstall"
            /\ pc' = "get_bundle_identifier"
            /\ UNCHANGED <<status, exitCode, bundle_identifier, trace,
                           displayActive, progressCalls>>
       ELSE \E p \in Outcomes(SettingsTexts) :
            LET r == Run(check, p) IN
            /\ Issue("uninstall", "showBuildSettings", None, "none", p,
                     "run", r)
            /\ IF r.kind = "return"
               THEN LET f == ParseSettings(r.value.output) IN
                    IF f.kind = "value"
                    THEN /\ bundle_identifier' = Some(f.id)
                         /\ pc' = "enter_progress"
                         /\ UNCHANGED <<status, exitCode, displayActive, progressCalls>>
                    ELSE /\ Abort(IF f.kind = "none" THEN "exit" ELSE "raise")
                         /\ UNCHANGED bundle_identifier
               ELSE Abort(r.kind) /\ UNCHANGED bundle_identifier
            /\ UNCHANGED caller
    /\ UNCHANGED <<inputs, installed, stepIdx, tasks, advanced, finished>>

(***************************************************************************)
(* SimulatorManager.boot_simulator: the boot status, then the boot, both   *)
(* addressed to config.device_name.  No method calls it, so no action      *)
(* leads to it and Next does not hold it.                                  *)
(***************************************************************************)
BootSimulatorStatus ==
    /\ pc = "boot_simulator"
    /\ \E p \in Outcomes(LogTexts) :
       LET r == Run(check, p) IN
       /\ Issue(by, "bootstatus", None, config.device_name[1], p, "run", r)
       /\ IF r.kind = "return"
          THEN /\ pc' = "boot_simulator_boot"
               /\ UNCHANGED <<status, exitCode, displayActive, progressCalls>>
          ELSE Abort(r.kind)
    /\ UNCHANGED <<inputs, locals, tasks, advanced, finished>>

BootSimulatorBoot ==
    /\ pc = "boot_simulator_boot"
    /\ \E p \in Outcomes(LogTexts) :
       LET r == Run(check, p) IN
       /\ Issue(by, "boot", None, config.device_name[1], p, "run", r)
       /\ IF r.kind = "return"
          THEN /\ pc' = "boot_simulator_returned"
               /\ UNCHANGED <<status, exitCode, displayActive, progressCalls>>
          ELSE Abort(r.kind)
    /\ UNCHANGED <<inputs, locals, tasks, advanced, finished>>

Next ==
    \/ InstallApp
    \/ GetBundleIdentifier
    \/ PlistQuery
    \/ IsAppInstalled
    \/ InstallBranch
    \/ LaunchInstalled
    \/ EnterProgress
    \/ RunStep
    \/ UninstallApp

Spec == Init /\ [][Next]_vars

(***************************************************************************)
(* CommandRunner on its own: one call of run or of run_safe by a runner    *)
(* built with either value of CommandRunnerConfig.check, for any outcome   *)
(* of the command.                                                         *)
(***************************************************************************)
InitRunner ==
    /\ check \in BOOLEAN
    /\ config = set_app_path(DefaultConfig)
    /\ Started
    /\ pc = "call"

CallRun ==
    /\ pc = "call"
    /\ \E p \in Outcomes(LogTexts) :
       LET r == Run(check, p) IN
       /\ Issue("none", "command", None, "none", p, "run", r)
       /\ IF r.kind = "return"
          THEN /\ pc' = "returned"
               /\ UNCHANGED <<status, exitCode, displayActive, progressCalls>>
          ELSE Abort(r.kind)
    /\ UNCHANGED <<inputs, locals, tasks, advanced, finished>>

CallRunSafe ==
    /\ pc = "call"
    /\ \E p \in Outcomes(LogTexts) :
       LET r == RunSafe(p) IN
       /\ Issue("none", "command", None, "none", p, "run_safe", r)
       /\ IF r.kind = "return"
          THEN /\ pc' = "returned"
               /\ UNCHANGED <<status, exitCode, displayActive, progressCalls>>
          ELSE Abort(r.kind)
    /\ UNCHANGED <<inputs, locals, tasks, advanced, finished>>

NextRunner == CallRun \/ CallRunSafe

SpecRunner == InitRunner /\ [][NextRunner]_vars

(***************************************************************************)
(* The construction of a SimulatorConfig from any fields.                  *)
(***************************************************************************)
MaxNameLen == 2       \* length of a scheme, configuration or path component
MaxPathLen == 2       \* number of components of a path given

Names == SeqsUpTo({"a"}, MaxNameLen) \ {<<>>}
Paths == SeqsUpTo(Names, MaxPathLen) \ {<<>>}

RawConfigs ==
    [device_name : {<<"iPhone 16 Plus">>},
     scheme : Names,
     configuration : Names,
     derived_data_path : Paths,
     app_path : {None} \cup {Some(q) : q \in Paths}]

InitConfig ==
    /\ check = TRUE
    /\ config \in RawConfigs
    /\ Started
    /\ pc = "construct"

Construct ==
    /\ pc = "construct"
    /\ config' = set_app_path(config)
    /\ pc' = "constructed"
    /\ UNCHANGED <<workflow, check, appExists, plistExists, status, exitCode,
                   locals, trace, prog>>

NextConfig == Construct

SpecConfig == InitConfig /\ [][NextConfig]_vars

(***************************************************************************)
(* Vocabulary of the properties.                                           *)
(***************************************************************************)
NamesOf(s) == [i \in 1..Len(s) |-> s[i].name]

IsPrefix(a, b) == Len(a) <= Len(b) /\ SubSeq(b, 1, Len(a)) = a

IsStepOfInstall(c) ==
    c.by = "install" /\ c.name \in {"clean", "build", "install", "launch"}

\* the commands that install_app has issued from its step list
StepsIssued == SelectSeq(cmds, IsStepOfInstall)

\* the commands issued after the container query of is_app_installed
AfterCheck ==
    LET i == IndexOf(NamesOf(cmds), "get_app_container") IN
    SubSeq(cmds, i + 1, Len(cmds))

AllSucceeded == \A i \in 1..Len(cmds) : cmds[i].rc = "zero"

\* C1: install_app, app installed: no clean, build or install command, and
\* of the step commands only the launch, once, as the last command; app not
\* installed: the step commands issued are clean, build, install, launch in
\* this order, without a gap, each one only after the one before it exited
\* zero, and all four of them when install_app returns.
C1_InstallBranches ==
    /\ installed = "true" =>
          /\ \A i \in 1..Len(cmds) :
                cmds[i].name \notin {"clean", "build", "install"}
          /\ Len(StepsIssued) <= 1
          /\ "install" \in finished =>
                /\ NamesOf(StepsIssued) = <<"launch">>
                /\ cmds[Len(cmds)].name = "launch"
    /\ installed = "false" =>
          /\ IsPrefix(NamesOf(StepsIssued),
                      <<"clean", "build", "install", "launch">>)
          /\ IsPrefix(StepsIssued,
                      SubSeq(cmds, Len(cmds) - Len(StepsIssued) + 1, Len(cmds)))
          /\ \A k \in 2..Len(StepsIssued) : StepsIssued[k - 1].rc = "zero"
          /\ "install" \in finished => Len(StepsIssued) = 4
    /\ installed = "none" => StepsIssued = <<>>

C1_Witness ==
    /\ installed = "false"
    /\ "install" \in finished
    /\ NamesOf(StepsIssued) = <<"clean", "build", "install", "launch">>

\* C2: an install that starts without the artifact on disk and in which no
\* external command fails ends with exit code 0, progress at 100 and the
\* four steps run.
C2_FreshInstallCompletes ==
    (workflow = "install" /\ ~appExists /\ ~plistExists /\ pc = "done"
     /\ AllSucceeded)
    => /\ exitCode = 0
       /\ advanced["install"] = 100
       /\ NamesOf(StepsIssued) = <<"clean", "build", "install", "launch">>

\* C3 as stated: with the app installed, a completed install_app has issued
\* exactly one command besides those of is_app_installed, and exits with 0.
C3_OneCommandAfterCheck ==
    (installed = "true" /\ "install" \in finished)
    => Len(AfterCheck) = 1 /\ exitCode = 0

\* C3 amended: with the app installed, the commands issued besides those of
\* is_app_installed are plutil, PlistBuddy and the launch, in this order,
\* the launch being the only command sent to the device; when install_app
\* returns all three were issued and the exit code is 0.
C3_ThreeCommandsAfterCheck ==
    installed = "true" =>
       /\ IsPrefix(NamesOf(AfterCheck), <<"plutil", "PlistBuddy", "launch">>)
       /\ "install" \in finished =>
             /\ NamesOf(AfterCheck) = <<"plutil", "PlistBuddy", "launch">>
             /\ status = "returned"
             /\ exitCode = 0

C3_Witness ==
    /\ workflow = "install"
    /\ installed = "true"
    /\ status = "returned"
    /\ Len(AfterCheck) = 3

\* C4 as stated: every method that returned normally advanced its progress
\* task by exactly 100.
C4_EveryWorkflowAdvances100 ==
    \A m \in finished : m \in tasks /\ advanced[m] = 100

\* C4 amended: uninstall_app and the not-installed branch of install_app
\* have advanced their progress task by exactly 100 when they return; the
\* already-installed branch of install_app adds no task and advances nothing.
C4_WeightedWorkflowsAdvance100 ==
    \A m \in finished :
       IF m = "install" /\ installed = "true"
       THEN m \notin tasks /\ advanced[m] = 0
       ELSE m \in tasks /\ advanced[m] = Total

C4_Witness ==
    /\ workflow = "refresh"
    /\ finished = {"uninstall", "install"}
    /\ installed = "false"
    /\ advanced["install"] = 100 /\ advanced["uninstall"] = 100

\* C5: once is_app_installed has returned, its result is true exactly if the
\* get_app_container query exited zero, whatever the query printed; before
\* that no such query was issued.
C5_InstalledIffQueryExitsZero ==
    LET q == SelectSeq(cmds, LAMBDA c : c.name = "get_app_container") IN
    /\ installed = "none" => q = <<>>
    /\ installed # "none" =>
          /\ Len(q) = 1
          /\ installed = "true" <=> q[1].rc = "zero"
    /\ pc = "install_branch" =>
          /\ lastCmd.name = "get_app_container"
          /\ lastCmd.target = "booted"
          /\ installed = "true" <=> lastProc.rc = "zero"

C5_Witness ==
    /\ pc = "install_branch"
    /\ lastProc.rc = "nonzero"
    /\ lastProc.stdout # <<>>
    /\ installed = "false"

\* C6: in a refresh every command of install_app comes after uninstall_app
\* has returned, hence after a successful uninstall command and after every
\* command of uninstall_app; a refresh that ends inside uninstall_app has
\* exit code 1 and has issued no command of install_app.
C6_RefreshUninstallsFirst ==
    workflow = "refresh" =>
       /\ \A i \in 1..Len(cmds) :
             cmds[i].by = "install" =>
                /\ "uninstall" \in finished
                /\ \E j \in 1..(i - 1) :
                      cmds[j].name = "uninstall" /\ cmds[j].rc = "zero"
                /\ \A k \in i..Len(cmds) : cmds[k].by = "install"
       /\ (by = "install" \/ installed # "none") => "uninstall" \in finished
       /\ (pc = "done" /\ "uninstall" \notin finished) =>
             /\ exitCode = 1
             /\ installed = "none"
             /\ \A i \in 1..Len(cmds) : cmds[i].by = "uninstall"

C6_Witness ==
    /\ workflow = "refresh"
    /\ status = "exited"
    /\ "uninstall" \notin finished
    /\ lastCmd.name = "uninstall"
    /\ lastProc.rc = "nonzero"

\* the output lines of a runner call as the logger received them
LineEntries == SelectSeq(log, LAMBDA e : e.kind = "line")

RECURSIVE JoinLines(_)
JoinLines(ls) ==
    IF ls = <<>> THEN <<>> ELSE Head(ls).text \o <<"\n">> \o JoinLines(Tail(ls))

\* a text with its last line terminated
Terminated(t) ==
    IF t = <<>> \/ t[Len(t)] = "\n" THEN t ELSE t \o <<"\n">>

\* C7: when a command issued through run with check set exits non-zero, the
\* logger has received, after the error header, every line of the captured
\* output at error severity, in order and nothing else of it; run has not
\* returned but ended the process with exit code 1, and the failed command
\* stays the last one issued.
C7_FailFastRun ==
    (lastRet.via = "run" /\ check /\ lastProc.rc = "nonzero") =>
       /\ lastRet.kind = "exit"
       /\ pc = "done" /\ status = "exited" /\ exitCode = 1
       /\ cmds[Len(cmds)].name = lastCmd.name
       /\ cmds[Len(cmds)].rc = "nonzero"
       /\ log[2] = Header("error", "failed")
       /\ \A i \in 1..Len(LineEntries) :
             /\ LineEntries[i].sev = "error"
             /\ ~Contains(LineEntries[i].text, "\n")
       /\ JoinLines(LineEntries) = Terminated(lastProc.stdout)

C7_Witness ==
    /\ lastRet.via = "run"
    /\ lastProc.rc = "nonzero"
    /\ status = "exited"
    /\ Len(LineEntries) = 2

\* a line that reads KEY=<value>, blanks allowed around the equals sign,
\* with id the value trimmed
IsKeyValueLine(line, id) ==
    \E i \in 1..Len(line) :
       /\ line[i] = "K"
       /\ LET rest == LStrip(SubSeq(line, i + 1, Len(line))) IN
          rest # <<>> /\ Head(rest) = "=" /\ id = Strip(Tail(rest))

\* C8: uninstall_app takes one of two ways to the identifier: with app_path
\* on disk it issues no build-settings query and the identifier is the
\* stripped answer of the property-list query; without it, it issues no
\* property-list command and the identifier is the trimmed value of a
\* PRODUCT_BUNDLE_IDENTIFIER=<value> line of the build settings.
C8_IdentifierByOneOfTwoPaths ==
    /\ \A i \in 1..Len(cmds) :
          cmds[i].by = "uninstall" =>
             IF appExists THEN cmds[i].name # "showBuildSettings"
             ELSE cmds[i].name \notin {"plutil", "PlistBuddy"}
    /\ (by = "uninstall" /\ pc = "enter_progress" /\ appExists) =>
          /\ lastCmd.name = "PlistBuddy"
          /\ bundle_identifier = Some(Strip(lastProc.stdout))
    /\ (by = "uninstall" /\ pc = "enter_progress" /\ ~appExists) =>
          /\ lastCmd.name = "showBuildSettings"
          /\ bundle_identifier # None
          /\ LET ls == SplitLines(lastProc.stdout) IN
             \E n \in 1..Len(ls) : IsKeyValueLine(ls[n], bundle_identifier[1])

\* C9: uninstall_app reaches its step list, and issues the uninstall
\* command, only with an identifier that was resolved and is not empty.
C9_UninstallNeedsIdentifier ==
    /\ (by = "uninstall" /\ pc \in {"enter_progress", "step"}) =>
          bundle_identifier # None /\ bundle_identifier[1] # <<>>
    /\ lastCmd.name = "uninstall" =>
          lastCmd.arg # None /\ lastCmd.arg[1] # <<>>

\* C10: whatever the container query comes to, run_safe returns to
\* is_app_installed and the process runs on: the pair returned has success
\* exactly for a zero exit and carries the captured output, or the text of
\* the exception when the process could not be started.
C10_RunSafeAlwaysReturns ==
    [][pc = "is_app_installed" =>
          /\ pc' = "install_branch"
          /\ status' = "running" /\ exitCode' = -1
          /\ lastRet'.via = "run_safe"
          /\ lastRet'.kind = "return"
          /\ lastRet'.value.success = (lastProc'.rc = "zero")
          /\ lastRet'.value.output =
                IF lastProc'.rc = "launch_error" THEN lastProc'.exc
                ELSE lastProc'.stdout]_vars

C10_Witness ==
    /\ pc = "install_branch"
    /\ lastRet.via = "run_safe"
    /\ lastProc.rc = "launch_error"
    /\ lastRet.value = [success |-> FALSE, output |-> lastProc.exc]
    /\ status = "running"

\* C11: a workflow ends either by returning to the cli, exit code 0, or by
\* sys.exit(1); it never ends by an exception leaving the workflow.
C11_EndsByReturnOrExit ==
    pc = "done" =>
       \/ status = "returned" /\ exitCode = 0
       \/ status = "exited" /\ exitCode = 1

\* C12: at most one Progress is started and not yet stopped; the step loop
\* runs with its Progress started; and when the process has ended, after a
\* normal return as after a fatal step, every Progress started was stopped.
C12_DisplayReleased ==
    /\ progressCalls.start - progressCalls.stop \in {0, 1}
    /\ displayActive <=> progressCalls.start - progressCalls.stop = 1
    /\ progressCalls.start = Cardinality(tasks)
    /\ pc = "step" => displayActive
    /\ pc = "done" =>
          /\ ~displayActive
          /\ progressCalls.stop = progressCalls.start

C12_Witness ==
    /\ pc = "done"
    /\ status = "exited"
    /\ lastCmd.name = "build"
    /\ progressCalls = [start |-> 1, stop |-> 1]

\* a path written out, its components separated by "/"
RECURSIVE Render(_)
Render(path) ==
    IF Len(path) = 0 THEN <<>>
    ELSE IF Len(path) = 1 THEN path[1]
    ELSE path[1] \o <<"/">> \o Render(Tail(path))

\* C13: the construction of a SimulatorConfig leaves app_path set: given no
\* app_path it is, written out, D/Build/Products/C-iphonesimulator/S.app
\* for the derived-data path D, the configuration C and the scheme S; an
\* app_path given is kept as it is; the other fields are not touched.
C13_AppPathAfterConstruction ==
    /\ [](pc = "constructed" => config.app_path # None)
    /\ [][pc = "construct" =>
            /\ config'.app_path # None
            /\ config.app_path # None => config'.app_path = config.app_path
            /\ config.app_path = None =>
                  Render(config'.app_path[1]) =
                     Render(config.derived_data_path)
                     \o <<"/", "Build", "/", "Products", "/">>
                     \o config.configuration \o <<"-iphonesimulator", "/">>
                     \o config.scheme \o <<".app">>
            /\ config'.scheme = config.scheme
            /\ config'.configuration = config.configuration
            /\ config'.derived_data_path = config.derived_data_path]_vars

C13_Witness ==
    /\ pc = "constructed"
    /\ config.scheme = <<"a">>
    /\ config.configuration = <<"a", "a">>
    /\ config.derived_data_path = << <<"a">> >>
    /\ config.app_path =
          Some(<< <<"a">>, <<"Build">>, <<"Products">>,
                  <<"a", "a", "-iphonesimulator">>, <<"a", ".app">> >>)

\* s is t without the blanks and newlines at its two ends
IsTrimmed(s, t) ==
    \E a \in 0..Len(t) : \E b \in a..Len(t) :
       /\ s = SubSeq(t, a + 1, b)
       /\ \A k \in 1..a : t[k] \in {" ", "\n"}
       /\ \A k \in (b + 1)..Len(t) : t[k] \in {" ", "\n"}
       /\ s # <<>> => s[1] \notin {" ", "\n"} /\ s[Len(s)] \notin {" ", "\n"}

\* C14: get_bundle_identifier without the Info.plist ends the process with
\* exit code 1 and issues no command; with it, it issues plutil, then, once
\* plutil has exited zero, PlistBuddy, and returns to its caller what
\* PlistBuddy printed, trimmed.
C14_GetBundleIdentifier ==
    [][/\ pc = "get_bundle_identifier" =>
             IF ~plistExists
             THEN /\ cmds' = cmds
                  /\ pc' = "done" /\ status' = "exited" /\ exitCode' = 1
             ELSE /\ Len(cmds') = Len(cmds) + 1
                  /\ cmds'[Len(cmds')].name = "plutil"
                  /\ cmds'[Len(cmds')].rc = "zero" <=> pc' = "plist_query"
       /\ pc = "plist_query" =>
             /\ plistExists
             /\ cmds[Len(cmds)].name = "plutil"
             /\ cmds[Len(cmds)].rc = "zero"
             /\ Len(cmds') = Len(cmds) + 1
             /\ cmds'[Len(cmds')].name = "PlistBuddy"
             /\ IF cmds'[Len(cmds')].rc = "zero"
                THEN /\ status' = "running"
                     /\ pc' \in {"is_app_installed", "launch_installed",
                                 "enter_progress"}
                     /\ bundle_identifier' # None
                     /\ IsTrimmed(bundle_identifier'[1], lastProc'.stdout)
                ELSE pc' = "done"]_vars

C14_Witness ==
    /\ pc = "is_app_installed"
    /\ NamesOf(cmds) = <<"plutil", "PlistBuddy">>
    /\ lastProc.stdout = <<"a", "\n">>
    /\ bundle_identifier = Some(<<"a">>)

\* C15: a call of run ends the process by sys.exit, with exit code 1,
\* exactly if the command exited non-zero and check is set; without check a
\* non-zero exit makes run return the captured output and the caller goes on.
C15_RunExitsIffCheckedFailure ==
    lastRet.via = "run" =>
       /\ status = "exited" <=> (check /\ lastProc.rc = "nonzero")
       /\ lastRet.kind = "exit" <=> status = "exited"
       /\ status = "exited" => pc = "done" /\ exitCode = 1
       /\ (~check /\ lastProc.rc = "nonzero") =>
             /\ pc = "returned"
             /\ status = "running" /\ exitCode = -1
             /\ lastRet.kind = "return"
             /\ lastRet.value = [output |-> lastProc.stdout]

C15_Witness ==
    /\ ~check
    /\ lastRet.via = "run"
    /\ lastProc.rc = "nonzero"
    /\ lastProc.stdout # <<>>
    /\ pc = "returned"

\* the logger has received every line of the captured output, in order
AllLinesLogged == JoinLines(LineEntries) = Terminated(lastProc.stdout)

\* C17 as stated: run and run_safe forward every output line, at debug
\* severity after a zero exit, at error or warning severity after a
\* non-zero exit.
C17_FailureLinesAtErrorOrWarning ==
    (lastRet.via \in {"run", "run_safe"}
     /\ lastProc.rc \in {"zero", "nonzero"}) =>
       /\ AllLinesLogged
       /\ \A i \in 1..Len(LineEntries) :
             IF lastProc.rc = "zero" THEN LineEntries[i].sev = "debug"
             ELSE LineEntries[i].sev \in {"error", "warning"}

\* C17 amended: run and run_safe forward every output line; at error
\* severity when run, with check set, saw a non-zero exit, at debug
\* severity in every other case, a non-zero exit seen by run_safe or by run
\* without check included; run_safe then writes one warning of its own
\* ahead of the lines.
C17_FailureLinesAtErrorOnlyByCheckedRun ==
    (lastRet.via \in {"run", "run_safe"}
     /\ lastProc.rc \in {"zero", "nonzero"}) =>
       /\ AllLinesLogged
       /\ \A i \in 1..Len(LineEntries) :
             LineEntries[i].sev =
                IF lastRet.via = "run" /\ check /\ lastProc.rc = "nonzero"
                THEN "error" ELSE "debug"
       /\ (lastRet.via = "run_safe" /\ lastProc.rc = "nonzero") =>
             /\ log[2] = Header("warning", "failed_continuing")
             /\ \A i \in 1..Len(log) : log[i].sev = "warning" <=> i = 2

C17_Witness ==
    /\ lastRet.via = "run_safe"
    /\ lastProc.rc = "nonzero"
    /\ Len(LineEntries) = 2
    /\ LineEntries[1].sev = "debug"

\* C16: in the not-installed branch the progress of install_app never goes
\* down and stays within 0..100; when step k of clean, build, install,
\* launch ends the process, the steps issued are the first k, each once,
\* the failed one is the last command of the run, the progress stands at
\* the weights of the steps before it (0, 20, 70, 90) and the exit code is 1.
C16_FailedStepStopsTheRun ==
    /\ [](/\ advanced["install"] \in 0..100
          /\ (by = "install" /\ "install" \in tasks /\ pc = "done"
              /\ status # "returned") =>
                LET k == Len(StepsIssued) IN
                /\ k \in 1..4
                /\ NamesOf(StepsIssued) =
                      SubSeq(<<"clean", "build", "install", "launch">>, 1, k)
                /\ cmds[Len(cmds)] = StepsIssued[k]
                /\ StepsIssued[k].rc # "zero"
                /\ \A j \in 1..(k - 1) : StepsIssued[j].rc = "zero"
                /\ advanced["install"] = <<0, 20, 70, 90>>[k]
                /\ exitCode = 1)
    /\ [][advanced'["install"] >= advanced["install"]]_vars

C16_Witness ==
    /\ by = "install"
    /\ status = "exited"
    /\ lastCmd.name = "install"
    /\ lastProc.rc = "nonzero"
    /\ advanced["install"] = 70

\* C18: in the not-installed branch every plutil and PlistBuddy command
\* comes before the first step command; the step loop starts right after a
\* PlistBuddy answer, holding that answer trimmed, keeps it through all the
\* steps, and passes it to the launch.
C18_LaunchUsesIdentifierReadBeforeClean ==
    /\ [](/\ installed = "false" =>
                \A i \in 1..Len(cmds) : \A j \in (i + 1)..Len(cmds) :
                   ~(IsStepOfInstall(cmds[i])
                     /\ cmds[j].name \in {"plutil", "PlistBuddy"})
          /\ (by = "install" /\ pc = "enter_progress") =>
                /\ installed = "false"
                /\ StepsIssued = <<>>
                /\ lastCmd.name = "PlistBuddy"
                /\ bundle_identifier # None
                /\ IsTrimmed(bundle_identifier[1], lastProc.stdout))
    /\ [][(by = "install" /\ pc = "step") =>
             /\ pc' = "step" => bundle_identifier' = bundle_identifier
             /\ lastCmd'.name = "launch" =>
                   lastCmd'.arg = bundle_identifier]_vars

C18_Witness ==
    /\ workflow = "install"
    /\ NamesOf(cmds) = <<"plutil", "PlistBuddy", "get_app_container",
                         "plutil", "PlistBuddy",
                         "clean", "build", "install", "launch">>
    /\ lastCmd.arg = Some(<<"a">>)
    /\ status = "returned"

\* C19: no workflow issues the boot-status or the boot command or gets to
\* boot_simulator, and the commands sent to the simulator, and only those,
\* are addressed to 'booted'.
C19_NoBootAndOnlyBooted ==
    /\ \A i \in 1..Len(cmds) : cmds[i].name \notin {"bootstatus", "boot"}
    /\ pc \notin {"boot_simulator", "boot_simulator_boot",
                  "boot_simulator_returned"}
    /\ ~ENABLED BootSimulatorStatus
    /\ ~ENABLED BootSimulatorBoot
    /\ lastCmd.target \in {"none", "booted"}
    /\ lastCmd.target = "booted" <=>
          lastCmd.name \in {"get_app_container", "install", "launch",
                            "uninstall"}

C19_Witness ==
    /\ workflow = "refresh"
    /\ lastCmd = [name |-> "uninstall", arg |-> Some(<<"a">>),
                  target |-> "booted"]
    /\ lastProc.rc = "zero"

====
